---- MODULE Spec2Model ----
(***************************************************************************)
(* Model of src/src/dhanhq/orderupdate.py: class OrderUpdate.               *)
(*                                                                         *)
(* One client instance, the code that holds it (the caller), the coroutine *)
(* connect_order_update and the websocket transport it talks to.           *)
(*                                                                         *)
(* Python values are tagged records [t |-> type, v |-> payload]; a text    *)
(* frame on the wire is identified by what json.loads makes of it.         *)
(***************************************************************************)
EXTENDS Integers, Sequences, FiniteSets, TLC

(***************************************************************************)
(* Bounds of the model.                                                    *)
(***************************************************************************)
\* longest inbound frame sequence the transport delivers in one session
MaxFrames == 2
\* how many times the caller assigns on_update on the instance
MaxRegs == 1

(***************************************************************************)
(* Python / JSON values.                                                   *)
(***************************************************************************)
PyNone == [t |-> "NoneType", v |-> "None"]
PyStr(s) == [t |-> "str", v |-> s]
PyInt(s) == [t |-> "int", v |-> s]
PyList(q) == [t |-> "list", v |-> q]
PyDict(f) == [t |-> "dict", v |-> f]
PyFunc(name) == [t |-> "function", v |-> name]

\* the empty mapping {}
EmptyDict == PyDict(<<>>)

\* str(x), as used on the credentials (lines 49-50): a str is returned as it
\* is, an int is rendered in decimal, None as "None".
Str(x) ==
    CASE x.t = "str" -> x
      [] x.t = "int" -> PyStr(x.v)
      [] x.t = "NoneType" -> PyStr("None")
      [] OTHER -> PyStr("<object>")

\* bool(x): Python truthiness of the values the model uses.
Truthy(x) ==
    CASE x.t = "NoneType" -> FALSE
      [] x.t = "str" -> x.v # ""
      [] x.t = "int" -> x.v # "0"
      [] x.t = "list" -> Len(x.v) > 0
      [] x.t = "dict" -> DOMAIN x.v # {}
      [] OTHER -> TRUE

\* callable(x)
Callable(x) == x.t = "function"

\* d.get(k, default) on a dict
DictGet(d, k, default) == IF k \in DOMAIN d.v THEN d.v[k] ELSE default

\* the str values of the model that have "orderNo" as a substring
HasOrderNoSubstring == {"orderNo", "ref orderNo 112"}

\* Outcome of the expression  "orderNo" in data  (line 74).
\*   dict: key membership; list: element membership; str: substring test;
\*   anything else is not iterable and raises TypeError.
InOrderNo(data) ==
    CASE data.t = "dict" -> [exc |-> "None", val |-> "orderNo" \in DOMAIN data.v]
      [] data.t = "list" ->
           [exc |-> "None",
            val |-> \E i \in 1..Len(data.v) : data.v[i] = PyStr("orderNo")]
      [] data.t = "str" -> [exc |-> "None", val |-> data.v \in HasOrderNoSubstring]
      [] OTHER -> [exc |-> "TypeError", val |-> FALSE]

(***************************************************************************)
(* Text frames.  json.dumps(v) is the text that encodes v; an inbound text *)
(* either encodes a value or is not JSON at all.                           *)
(***************************************************************************)
Text(v) == [wf |-> TRUE, val |-> v]
Garbage == [wf |-> FALSE, val |-> PyNone]

json_dumps(v) == Text(v)

json_loads(msg) ==
    IF msg.wf THEN [exc |-> "None", val |-> msg.val]
    ELSE [exc |-> "JSONDecodeError", val |-> PyNone]

(***************************************************************************)
(* OrderUpdate.handle_order_update (lines 62-81), as a function of the     *)
(* decoded frame and of the value self.on_update has when it is called.    *)
(* The result is the exception raised ("None": it returned) and the        *)
(* events produced: lines printed and calls of the registered handler.     *)
(***************************************************************************)
Event(kind, args) == [kind |-> kind, args |-> args]
Returned(events) == [exc |-> "None", events |-> events]
Raised(exc, events) == [exc |-> exc, events |-> events]

\* The caller's handlers: one returns, one raises.
HandlerOk == PyFunc("h_ok")
HandlerRaising == PyFunc("h_raise")
HandlerRaises(fn) == fn = HandlerRaising

\* variant: a frame without Type counts as an order alert
IsOrderAlertUnlessTyped(order_update) ==
    DictGet(order_update, "Type", PyStr("order_alert")) = PyStr("order_alert")

\* line 69: order_update.get('Type') == 'order_alert', on a dict
IsOrderAlert(order_update) ==
    DictGet(order_update, "Type", PyNone) = PyStr("order_alert")

\* line 70: self.on_update and callable(self.on_update)
HandlerRegistered(on_update) == Truthy(on_update) /\ Callable(on_update)

\* variant: the handler is given the Data part only
HandlerBranchDataOnly(order_update, on_update) ==
    LET call == Event("handler", <<on_update, DictGet(order_update, "Data", EmptyDict)>>)
    IN  IF HandlerRaises(on_update)
        THEN Raised("HandlerError", <<call>>)
        ELSE Returned(<<call>>)

\* variant: what the handler raises is caught and dropped
HandlerBranchSwallowing(order_update, on_update) ==
    Returned(<<Event("handler", <<on_update, order_update>>)>>)

\* line 71: return self.on_update(order_update)
HandlerBranch(order_update, on_update) ==
    LET call == Event("handler", <<on_update, order_update>>)
    IN  IF HandlerRaises(on_update)
        THEN Raised("HandlerError", <<call>>)
        ELSE Returned(<<call>>)

\* variant: data.get("status") with no default
StatusOfNoDefault(data) == DictGet(data, "status", PyNone)

\* line 76: data.get("status", "Unknown status")
StatusOf(data) == DictGet(data, "status", PyStr("Unknown status"))

\* variant: order_update.get('Data') with no default
DefaultBranchNoDefault(order_update) ==
    LET data == DictGet(order_update, "Data", PyNone)
        has == InOrderNo(data)
    IN  IF has.exc # "None" THEN Raised(has.exc, <<>>)
        ELSE IF has.val
        THEN IF data.t # "dict" THEN Raised("TypeError", <<>>)
             ELSE Returned(<<Event("status",
                                   <<StatusOf(data), data.v["orderNo"], data>>)>>)
        ELSE Returned(<<Event("generic", <<data>>)>>)

\* lines 73-79: the default presentation, no handler being registered
DefaultBranch(order_update) ==
    LET data == DictGet(order_update, "Data", EmptyDict)
        has == InOrderNo(data)
    IN  IF has.exc # "None" THEN Raised(has.exc, <<>>)
        ELSE IF has.val
        THEN \* data["orderNo"]: only a dict is indexed by a str
             IF data.t # "dict" THEN Raised("TypeError", <<>>)
             ELSE Returned(<<Event("status",
                                   <<StatusOf(data), data.v["orderNo"], data>>)>>)
        ELSE Returned(<<Event("generic", <<data>>)>>)

\* line 81
UnknownBranch(order_update) == Returned(<<Event("unknown", <<order_update>>)>>)

handle_order_update(order_update, on_update) ==
    IF order_update.t # "dict"
    THEN \* only a dict has .get
         Raised("AttributeError", <<>>)
    ELSE IF IsOrderAlert(order_update)
    THEN IF HandlerRegistered(on_update)
         THEN HandlerBranch(order_update, on_update)
         ELSE DefaultBranch(order_update)
    ELSE UnknownBranch(order_update)

(***************************************************************************)
(* The login frame (lines 46-55).                                          *)
(***************************************************************************)
\* a login frame with the two credentials in each other's place
auth_message_swapped(cid, tok) ==
    PyDict([LoginReq |-> PyDict([MsgCode |-> PyInt("42"),
                                 ClientId |-> Str(tok),
                                 Token |-> Str(cid)]),
            UserType |-> PyStr("SELF")])

auth_message(cid, tok) ==
    PyDict([LoginReq |-> PyDict([MsgCode |-> PyInt("42"),
                                 ClientId |-> Str(cid),
                                 Token |-> Str(tok)]),
            UserType |-> PyStr("SELF")])

\* line 37
OrderFeedUrl == "wss://api-order-update.dhan.co"

(***************************************************************************)
(* Inputs: credentials handed out by dhan_context, values the caller       *)
(* stores in on_update, and the frames the server sends.                   *)
(***************************************************************************)
Credentials ==
    { <<PyStr("1100003626"), PyStr("eyJhbGc")>>,
      <<PyInt("7"), PyStr("tok2")>> }

OnUpdateValues == {PyNone, HandlerOk, HandlerRaising, PyStr("not callable")}

Alert(data) == PyDict([Type |-> PyStr("order_alert"), Data |-> data])

Frames ==
    { Garbage,
      Text(PyDict([Type |-> PyStr("heartbeat")])),
      Text(PyDict([Data |-> PyDict([orderNo |-> PyStr("112111182045")])])),
      Text(Alert(PyDict([orderNo |-> PyStr("112111182045"),
                         status |-> PyStr("TRADED")]))),
      Text(Alert(PyDict([orderNo |-> PyStr("112111182045")]))),
      Text(Alert(PyDict([status |-> PyStr("TRADED")]))),
      Text(PyDict([Type |-> PyStr("order_alert")])),
      Text(Alert(PyNone)),
      Text(PyList(<<>>)) }

RECURSIVE SeqsUpTo(_, _)
SeqsUpTo(S, n) ==
    IF n = 0 THEN {<<>>}
    ELSE LET shorter == SeqsUpTo(S, n - 1)
         IN  shorter \cup {Append(q, x) : q \in {r \in shorter : Len(r) = n - 1}, x \in S}

\* how the connection ends after the last frame: a normal closure, or an
\* error
Endings == {"close", "error"}

(***************************************************************************)
(* State.                                                                  *)
(***************************************************************************)
VARIABLES
    client_id,        \* self.client_id (line 35)
    access_token,     \* self.access_token (line 36)
    order_feed_wss,   \* self.order_feed_wss (line 37)
    ctx_calls,        \* calls made on dhan_context so far (lines 35-36)
    class_on_update,  \* OrderUpdate.on_update, the class attribute (line 25)
    inst_on_update,   \* on_update in the instance's own dict, or Unset
    regs,             \* assignments of on_update made by the caller so far
    callerPc,         \* where the code that holds the instance is
    callerSaw,        \* what running the coroutine gave back to the caller
    reported,         \* lines printed by the except clause (line 92)
    pc,               \* where the coroutine connect_order_update is
    exc,              \* the exception travelling out of the coroutine
    conn,             \* the websocket connection: "none", "open", "closed"
    opens,            \* calls of websockets.connect (line 45)
    sent,             \* text frames sent to the server, in order
    stream,           \* what the server delivers: frames, then how it ended
                      \* ("open": it has not ended yet)
    consumed,         \* frames the async for has yielded so far (line 58)
    dispatched,       \* the calls of handle_order_update (line 60)
    out               \* lines printed and handler calls, in order

config == <<client_id, access_token, order_feed_wss, ctx_calls, class_on_update>>
slot == <<inst_on_update, regs>>
caller == <<callerPc, callerSaw, reported>>
session == <<pc, exc, conn, opens, sent, consumed, dispatched, out>>
vars == <<config, slot, caller, session, stream>>

Unset == [t |-> "unset", v |-> "unset"]

\* self.on_update (line 70): the instance attribute when one was assigned,
\* the class attribute of line 25 otherwise.
self_on_update == IF inst_on_update # Unset THEN inst_on_update ELSE class_on_update

\* events of one dispatch, tagged with the number n of the frame (0: login)
Tagged(n, events) ==
    [i \in 1..Len(events) |-> [n |-> n, kind |-> events[i].kind, args |-> events[i].args]]

(***************************************************************************)
(* OrderUpdate.__init__ (lines 27-37) and the class body (line 25).        *)
(***************************************************************************)
Init ==
    /\ \E cred \in Credentials :
          /\ client_id = cred[1]
          /\ access_token = cred[2]
    /\ order_feed_wss = OrderFeedUrl
    /\ ctx_calls = <<"get_client_id", "get_access_token">>
    /\ class_on_update = PyNone
    /\ inst_on_update = Unset
    /\ regs = 0
    /\ callerPc = "constructed"
    /\ callerSaw = "nothing"
    /\ reported = <<>>
    /\ pc = "none"
    /\ exc = "None"
    /\ conn = "none"
    /\ opens = 0
    /\ sent = <<>>
    /\ stream \in [frames : SeqsUpTo(Frames, MaxFrames), ending : {"open"}]
    /\ consumed = 0
    /\ dispatched = <<>>
    /\ out = <<>>

(***************************************************************************)
(* The caller.                                                             *)
(***************************************************************************)
\* instance.on_update = v: before the session is started, or while it waits
\* for a frame that is still to come (an assignment made at another moment
\* is first read at the next frame as well, one made after the last frame
\* is never read)
SetOnUpdate ==
    /\ regs < MaxRegs
    /\ \/ callerPc = "constructed"
       \/ pc = "recv" /\ consumed < Len(stream.frames)
    /\ \E v \in OnUpdateValues : inst_on_update' = v
    /\ regs' = regs + 1
    /\ UNCHANGED <<config, caller, session, stream>>

\* OrderUpdate.on_update = v: an assignment to the class attribute of line
\* 25, as made by code that registers a handler for another instance of the
\* class; it is what every instance without an attribute of its own reads
SetClassOnUpdate ==
    /\ regs < MaxRegs
    /\ \/ callerPc = "constructed"
       \/ pc = "recv" /\ consumed < Len(stream.frames)
    /\ \E v \in OnUpdateValues : class_on_update' = v
    /\ regs' = regs + 1
    /\ UNCHANGED <<client_id, access_token, order_feed_wss, ctx_calls, inst_on_update>>
    /\ UNCHANGED <<caller, session, stream>>

\* self.connect_order_update() (line 90): calling an async def runs none of
\* its body; it makes a coroutine object and cannot raise.
connect_order_update_call == [exc |-> "None", value |-> "coroutine"]

\* connect_to_dhan_websocket_sync (lines 83-92)
connect_to_dhan_websocket_sync ==
    /\ callerPc = "constructed"
    /\ LET r == connect_order_update_call
       IN  IF r.exc = "None"
           THEN /\ callerPc' = "holding"      \* return of line 90
                /\ pc' = "created"
                /\ reported' = reported
           ELSE /\ callerPc' = "returned"     \* lines 91-92
                /\ pc' = pc
                /\ reported' = Append(reported, r.exc)
    /\ UNCHANGED <<callerSaw, exc, conn, opens, sent, consumed, dispatched, out>>
    /\ UNCHANGED <<config, slot, stream>>

\* the caller runs the coroutine it was handed (awaits it, asyncio.run)
CallerRun ==
    /\ callerPc = "holding"
    /\ callerPc' = "driving"
    /\ pc' = "connect"
    /\ UNCHANGED <<callerSaw, reported, exc, conn, opens, sent, consumed, dispatched, out>>
    /\ UNCHANGED <<config, slot, stream>>

\* the caller never runs it
CallerDrop ==
    /\ callerPc = "holding"
    /\ callerPc' = "dropped"
    /\ UNCHANGED <<callerSaw, reported, session, config, slot, stream>>

(***************************************************************************)
(* connect_order_update (lines 39-60), one action per suspension point.    *)
(***************************************************************************)
\* variant: the exception is dropped where the coroutine is run, which
\* returns as after a normal end
FinishReturningNone(e) ==
    /\ pc' = "done"
    /\ exc' = e
    /\ callerPc' = "finished"
    /\ callerSaw' = "None"

\* the coroutine ends with exception e ("None": it returns); whoever runs it
\* gets e
Finish(e) ==
    /\ pc' = "done"
    /\ exc' = e
    /\ callerPc' = "finished"
    /\ callerSaw' = e

\* line 45: websockets.connect(self.order_feed_wss), __aenter__
Connect ==
    /\ pc = "connect"
    /\ opens' = opens + 1
    /\ \/ /\ conn' = "open"
          /\ pc' = "send"
          /\ UNCHANGED <<exc, callerPc, callerSaw>>
       \/ /\ conn' = conn
          /\ Finish("OSError")
    /\ UNCHANGED <<reported, sent, consumed, dispatched, out>>
    /\ UNCHANGED <<config, slot, stream>>

\* variant: a failed send is not noticed and the loop is entered
SendIgnoringFailure ==
    /\ pc = "send"
    /\ LET auth == auth_message(client_id, access_token)
       IN  \/ /\ sent' = Append(sent, json_dumps(auth))
              /\ out' = out \o Tagged(0, <<Event("sent", <<auth>>)>>)
              /\ pc' = "recv"
              /\ exc' = exc
           \/ /\ pc' = "recv"
              /\ UNCHANGED <<exc, sent, out>>
    /\ UNCHANGED <<conn, opens, consumed, dispatched>>
    /\ UNCHANGED <<config, slot, caller, stream>>

\* variant: the login asks dhan_context for the credentials again and
\* stores them as the str it sends
SendRefreshingCredentials ==
    /\ pc = "send"
    /\ ctx_calls' = ctx_calls \o <<"get_client_id", "get_access_token">>
    /\ client_id' = Str(client_id)
    /\ access_token' = Str(access_token)
    /\ LET auth == auth_message(client_id, access_token)
       IN  \/ /\ sent' = Append(sent, json_dumps(auth))
              /\ out' = out \o Tagged(0, <<Event("sent", <<auth>>)>>)
              /\ pc' = "recv"
              /\ exc' = exc
           \/ /\ exc' = "ConnectionClosed"
              /\ pc' = "exit"
              /\ UNCHANGED <<sent, out>>
    /\ UNCHANGED <<conn, opens, consumed, dispatched>>
    /\ UNCHANGED <<order_feed_wss, class_on_update, slot, caller, stream>>

\* lines 46-56: build the login frame, send it, print it
Send ==
    /\ pc = "send"
    /\ LET auth == auth_message(client_id, access_token)
       IN  \/ /\ sent' = Append(sent, json_dumps(auth))
              /\ out' = out \o Tagged(0, <<Event("sent", <<auth>>)>>)
              /\ pc' = "recv"
              /\ exc' = exc
           \/ /\ exc' = "ConnectionClosed"
              /\ pc' = "exit"
              /\ UNCHANGED <<sent, out>>
    /\ UNCHANGED <<conn, opens, consumed, dispatched>>
    /\ UNCHANGED <<config, slot, caller, stream>>

\* variant: the first frame after the login is read as its acknowledgment
\* and not dispatched
DispatchAfterAck ==
    /\ pc = "recv"
    /\ consumed < Len(stream.frames)
    /\ consumed' = consumed + 1
    /\ LET message == stream.frames[consumed + 1]
           data == json_loads(message)
           r == handle_order_update(data.val, self_on_update)
       IN  IF consumed = 0
           THEN UNCHANGED <<exc, pc, dispatched, out>>
           ELSE IF data.exc # "None"
           THEN /\ exc' = data.exc
                /\ pc' = "exit"
                /\ UNCHANGED <<dispatched, out>>
           ELSE /\ dispatched' = Append(dispatched,
                                        [n |-> consumed + 1, msg |-> data.val,
                                         on_update |-> self_on_update])
                /\ out' = out \o Tagged(consumed + 1, r.events)
                /\ exc' = r.exc
                /\ pc' = IF r.exc = "None" THEN "recv" ELSE "exit"
    /\ UNCHANGED <<conn, opens, sent>>
    /\ UNCHANGED <<config, slot, caller, stream>>

\* variant: the value of on_update read for the first frame is kept for
\* the frames that follow
DispatchCachingHandler ==
    /\ pc = "recv"
    /\ consumed < Len(stream.frames)
    /\ consumed' = consumed + 1
    /\ LET message == stream.frames[consumed + 1]
           data == json_loads(message)
           cached == IF dispatched # <<>> THEN dispatched[1].on_update ELSE self_on_update
           r == handle_order_update(data.val, cached)
       IN  IF data.exc # "None"
           THEN /\ exc' = data.exc
                /\ pc' = "exit"
                /\ UNCHANGED <<dispatched, out>>
           ELSE /\ dispatched' = Append(dispatched,
                                        [n |-> consumed + 1, msg |-> data.val,
                                         on_update |-> cached])
                /\ out' = out \o Tagged(consumed + 1, r.events)
                /\ exc' = r.exc
                /\ pc' = IF r.exc = "None" THEN "recv" ELSE "exit"
    /\ UNCHANGED <<conn, opens, sent>>
    /\ UNCHANGED <<config, slot, caller, stream>>

\* lines 58-60: the next frame is yielded, decoded and dispatched
Dispatch ==
    /\ pc = "recv"
    /\ consumed < Len(stream.frames)
    /\ consumed' = consumed + 1
    /\ LET message == stream.frames[consumed + 1]
           data == json_loads(message)
           r == handle_order_update(data.val, self_on_update)
       IN  IF data.exc # "None"
           THEN /\ exc' = data.exc
                /\ pc' = "exit"
                /\ UNCHANGED <<dispatched, out>>
           ELSE /\ dispatched' = Append(dispatched,
                                        [n |-> consumed + 1, msg |-> data.val,
                                         on_update |-> self_on_update])
                /\ out' = out \o Tagged(consumed + 1, r.events)
                /\ exc' = r.exc
                /\ pc' = IF r.exc = "None" THEN "recv" ELSE "exit"
    /\ UNCHANGED <<conn, opens, sent>>
    /\ UNCHANGED <<config, slot, caller, stream>>

\* variant: a normal closure is raised like any other
StreamEndRaising ==
    /\ pc = "recv"
    /\ consumed = Len(stream.frames)
    /\ stream.ending \in Endings
    /\ exc' = IF stream.ending = "close" THEN "ConnectionClosedOK" ELSE "ConnectionClosedError"
    /\ pc' = "exit"
    /\ UNCHANGED <<conn, opens, sent, consumed, dispatched, out>>
    /\ UNCHANGED <<config, slot, caller, stream>>

\* the server, or the network, ends the connection after the last frame
ConnectionEnds ==
    /\ pc = "recv"
    /\ consumed = Len(stream.frames)
    /\ stream.ending = "open"
    /\ \E e \in Endings : stream' = [stream EXCEPT !.ending = e]
    /\ UNCHANGED <<config, slot, caller, session>>

\* line 58: the async for finds the connection ended; a normal closure ends
\* the iteration, any other is raised
StreamEnd ==
    /\ pc = "recv"
    /\ consumed = Len(stream.frames)
    /\ stream.ending \in Endings
    /\ exc' = IF stream.ending = "close" THEN "None" ELSE "ConnectionClosedError"
    /\ pc' = "exit"
    /\ UNCHANGED <<conn, opens, sent, consumed, dispatched, out>>
    /\ UNCHANGED <<config, slot, caller, stream>>

\* the task is cancelled while it waits (lines 45, 55, 58)
Cancel ==
    /\ pc \in {"connect", "send", "recv"}
    /\ IF conn = "open"
       THEN /\ exc' = "CancelledError"
            /\ pc' = "exit"
            /\ UNCHANGED <<callerPc, callerSaw>>
       ELSE Finish("CancelledError")
    /\ UNCHANGED <<reported, conn, opens, sent, consumed, dispatched, out>>
    /\ UNCHANGED <<config, slot, stream>>

\* variant: the connection is closed at the end of the block only, so an
\* exception leaves it open
ExitClosingOnSuccess ==
    /\ pc = "exit"
    /\ conn' = IF exc = "None" THEN "closed" ELSE conn
    /\ Finish(exc)
    /\ UNCHANGED <<reported, opens, sent, consumed, dispatched, out>>
    /\ UNCHANGED <<config, slot, stream>>

\* variant: a connection lost to an error is opened again
ExitReconnecting ==
    /\ pc = "exit"
    /\ conn' = "closed"
    /\ IF exc = "ConnectionClosedError"
       THEN /\ pc' = "connect"
            /\ exc' = "None"
            /\ UNCHANGED <<callerPc, callerSaw>>
       ELSE Finish(exc)
    /\ UNCHANGED <<reported, opens, sent, consumed, dispatched, out>>
    /\ UNCHANGED <<config, slot, stream>>

\* line 45: leaving the async with block, __aexit__ closes the connection
\* and lets the exception through
Exit ==
    /\ pc = "exit"
    /\ conn' = "closed"
    /\ Finish(exc)
    /\ UNCHANGED <<reported, opens, sent, consumed, dispatched, out>>
    /\ UNCHANGED <<config, slot, stream>>

SessionStep == Connect \/ Send \/ Dispatch \/ StreamEnd \/ Exit

Next ==
    \/ SetOnUpdate
    \/ connect_to_dhan_websocket_sync
    \/ CallerRun
    \/ CallerDrop
    \/ Connect
    \/ Send
    \/ Dispatch
    \/ ConnectionEnds
    \/ StreamEnd
    \/ Cancel
    \/ Exit

Spec == Init /\ [][Next]_vars

\* the instance beside other instances of the class, whose handlers are
\* registered on the class attribute
NextShared ==
    \/ Next
    \/ SetClassOnUpdate

SpecShared == Init /\ [][NextShared]_vars

\* the event loop that runs the coroutine resumes it whenever it can go on
FairSpec == Spec /\ WF_vars(SessionStep)

(***************************************************************************)
(* Vocabulary of the properties.                                           *)
(***************************************************************************)
\* the events of frame number n, in the order they were produced
EventsOf(n) == SelectSeq(out, LAMBDA e : e.n = n)

\* everything produced by the dispatch loop, the login line left out
FrameEvents == SelectSeq(out, LAMBDA e : e.n > 0)

\* exceptions raised by decoding or dispatching a frame
DispatchFaults == {"JSONDecodeError", "AttributeError", "TypeError", "HandlerError"}

\* the loop was ended by what frame n did
AbortedBy(n) == pc \in {"exit", "done"} /\ consumed = n /\ exc \in DispatchFaults

IsObject(msg) == msg.t = "dict"
TypeField(msg) == IF "Type" \in DOMAIN msg.v THEN msg.v.Type ELSE PyNone
HasHandler(d) == d.on_update.t = "function"

(***************************************************************************)
(* C1: a run of connect_order_update sends at most one frame, ever; every  *)
(* frame it sends is the login frame {"LoginReq": {"MsgCode": 42,          *)
(* "ClientId": <client id>, "Token": <token>}, "UserType": "SELF"} with    *)
(* the text of the two credentials; and once the dispatch loop is entered, *)
(* a frame was dispatched or the session ended normally, exactly one login *)
(* frame has been sent.                                                    *)
(***************************************************************************)
IsLoginFrame(m) ==
    /\ m.wf
    /\ m.val.t = "dict"
    /\ DOMAIN m.val.v = {"LoginReq", "UserType"}
    /\ m.val.v.UserType = [t |-> "str", v |-> "SELF"]
    /\ m.val.v.LoginReq.t = "dict"
    /\ DOMAIN m.val.v.LoginReq.v = {"MsgCode", "ClientId", "Token"}
    /\ m.val.v.LoginReq.v.MsgCode = [t |-> "int", v |-> "42"]
    /\ m.val.v.LoginReq.v.ClientId = [t |-> "str", v |-> client_id.v]
    /\ m.val.v.LoginReq.v.Token = [t |-> "str", v |-> access_token.v]

C1_OneLoginFrame ==
    /\ Len(sent) <= 1
    /\ \A i \in 1..Len(sent) : IsLoginFrame(sent[i])
    /\ (pc = "recv" \/ consumed > 0 \/ dispatched # <<>>) => Len(sent) = 1
    /\ (pc = "done" /\ exc = "None") => Len(sent) = 1

C1_Witness ==
    /\ pc = "done"
    /\ Len(sent) = 1
    /\ Len(dispatched) = 2
    /\ client_id.t = "int"

(***************************************************************************)
(* C2: when connect_to_dhan_websocket_sync has returned to its caller, the *)
(* session has been run and has ended: the transport was opened and the    *)
(* coroutine is done.                                                      *)
(***************************************************************************)
C2_SyncBlocksUntilSessionEnds ==
    callerPc = "holding" => (pc = "done" /\ opens >= 1)

(***************************************************************************)
(* C3: an error raised in the handshake or the dispatch path is reported   *)
(* by connect_to_dhan_websocket_sync and never reaches the code that       *)
(* started the session.                                                    *)
(***************************************************************************)
C3_ErrorsCaughtAtBoundary ==
    (pc = "done" /\ exc \notin {"None", "CancelledError"})
        => (callerSaw \in {"nothing", "None"} /\ reported # <<>>)

(***************************************************************************)
(* C4: a decoded frame that is an object whose Type is absent or is not    *)
(* "order_alert" produces exactly one event, the unknown-message line with *)
(* the decoded frame itself; the handler is not called, registered or not; *)
(* and the loop is not ended by that frame.                                *)
(***************************************************************************)
C4_UnknownMessage ==
    \A i \in 1..Len(dispatched) :
        LET d == dispatched[i]
        IN  (IsObject(d.msg) /\ TypeField(d.msg) # [t |-> "str", v |-> "order_alert"])
                => /\ EventsOf(d.n) = <<[n |-> d.n, kind |-> "unknown", args |-> <<d.msg>>]>>
                   /\ ~AbortedBy(d.n)

C4_Witness ==
    \E i \in 1..Len(dispatched) :
        /\ IsObject(dispatched[i].msg)
        /\ "Type" \notin DOMAIN dispatched[i].msg.v
        /\ HasHandler(dispatched[i])
        /\ i < Len(dispatched)

(***************************************************************************)
(* C5: an order_alert frame dispatched while on_update holds a handler     *)
(* produces exactly one event: the call of that handler with the whole     *)
(* decoded frame; no line is printed for the frame.                        *)
(***************************************************************************)
C5_HandlerGetsFullFrame ==
    \A i \in 1..Len(dispatched) :
        LET d == dispatched[i]
        IN  (/\ IsObject(d.msg)
             /\ TypeField(d.msg) = [t |-> "str", v |-> "order_alert"]
             /\ HasHandler(d))
                => EventsOf(d.n) =
                     <<[n |-> d.n, kind |-> "handler", args |-> <<d.on_update, d.msg>>]>>

C5_Witness ==
    \E i \in 1..Len(dispatched) :
        /\ IsObject(dispatched[i].msg)
        /\ TypeField(dispatched[i].msg) = [t |-> "str", v |-> "order_alert"]
        /\ "Data" \in DOMAIN dispatched[i].msg.v
        /\ HasHandler(dispatched[i])
        /\ i < Len(dispatched)

(***************************************************************************)
(* C6: an order_alert frame dispatched with no handler registered, whose   *)
(* Data is an object with an orderNo, produces exactly one event: the      *)
(* status line with Data.status ("Unknown status" when Data has none),     *)
(* Data.orderNo and the whole Data.                                        *)
(***************************************************************************)
C6_StatusLine ==
    \A i \in 1..Len(dispatched) :
        LET d == dispatched[i]
        IN  (/\ IsObject(d.msg)
             /\ TypeField(d.msg) = [t |-> "str", v |-> "order_alert"]
             /\ ~HasHandler(d)
             /\ "Data" \in DOMAIN d.msg.v
             /\ IsObject(d.msg.v.Data)
             /\ "orderNo" \in DOMAIN d.msg.v.Data.v)
                => LET data == d.msg.v.Data
                       status == IF "status" \in DOMAIN data.v
                                 THEN data.v.status
                                 ELSE [t |-> "str", v |-> "Unknown status"]
                   IN  EventsOf(d.n) =
                         <<[n |-> d.n, kind |-> "status",
                            args |-> <<status, data.v.orderNo, data>>]>>

C6_Witness ==
    \E i \in 1..Len(dispatched) :
        LET d == dispatched[i]
        IN  /\ IsObject(d.msg)
            /\ TypeField(d.msg) = [t |-> "str", v |-> "order_alert"]
            /\ d.on_update = [t |-> "str", v |-> "not callable"]
            /\ "Data" \in DOMAIN d.msg.v
            /\ IsObject(d.msg.v.Data)
            /\ DOMAIN d.msg.v.Data.v = {"orderNo"}

(***************************************************************************)
(* C7: the frames are dispatched one by one in the order the transport     *)
(* delivers them. The k-th call of handle_order_update is for the k-th     *)
(* frame of the stream and gets what that frame decodes to; the k-th event *)
(* of the loop belongs to the k-th frame; a frame never has two events;    *)
(* while no frame has raised, the loop has produced as many events as      *)
(* frames were yielded, and a session that ends normally has produced one  *)
(* event for each of the N frames of the stream.                           *)
(***************************************************************************)
C7_InOrderOnePerFrame ==
    /\ \A k \in 1..Len(dispatched) :
          /\ dispatched[k].n = k
          /\ stream.frames[k].wf
          /\ dispatched[k].msg = stream.frames[k].val
    /\ \A k \in 1..Len(FrameEvents) : FrameEvents[k].n = k
    /\ Len(FrameEvents) <= consumed
    /\ consumed <= Len(FrameEvents) + 1
    /\ exc \notin DispatchFaults => Len(FrameEvents) = consumed
    /\ (pc = "done" /\ exc = "None") => Len(FrameEvents) = Len(stream.frames)

C7_Witness ==
    /\ pc = "done"
    /\ exc = "None"
    /\ Len(stream.frames) = 2
    /\ stream.frames[1] # stream.frames[2]
    /\ Len(FrameEvents) = 2
    /\ FrameEvents[1].kind = "handler"
    /\ FrameEvents[2].kind = "unknown"

(***************************************************************************)
(* C8: when connect_order_update has finished, whatever ended it, the      *)
(* connection it opened is closed: no finished session holds an open       *)
(* connection.                                                             *)
(***************************************************************************)
C8_ConnectionReleased ==
    pc = "done" => (conn # "open" /\ (conn = "none" => sent = <<>> /\ consumed = 0))

C8_Witness ==
    /\ pc = "done"
    /\ conn = "closed"
    /\ exc = "HandlerError"

(***************************************************************************)
(* C9: one start opens the transport at most once; after a transport       *)
(* error, a stream end or a failed handshake nothing is opened or sent     *)
(* again.                                                                  *)
(***************************************************************************)
C9_NoReconnect ==
    /\ opens <= 1
    /\ Len(sent) <= opens
    /\ pc = "done" => ~ENABLED SessionStep

C9_Witness ==
    /\ pc = "done"
    /\ exc = "ConnectionClosedError"
    /\ opens = 1
    /\ consumed = 2

(***************************************************************************)
(* C10: when the connection is closed normally after the loop was given k *)
(* frames of the wire shape (each decodes to an object, the Data of an     *)
(* order alert being an object or absent), the session, unless it is       *)
(* cancelled, eventually ends with no exception, with exactly k events of  *)
(* the loop, one for each frame in order, and with the connection closed.  *)
(***************************************************************************)
WireShaped(m) ==
    /\ m.wf
    /\ IsObject(m.val)
    /\ (/\ TypeField(m.val) = [t |-> "str", v |-> "order_alert"]
        /\ "Data" \in DOMAIN m.val.v) => IsObject(m.val.v.Data)

ClosesAfterWireShapedFrames ==
    /\ stream.ending = "close"
    /\ \A k \in 1..Len(stream.frames) : WireShaped(stream.frames[k])

EndedCleanly ==
    /\ pc = "done"
    /\ exc = "None"
    /\ callerSaw = "None"
    /\ conn = "closed"
    /\ consumed = Len(stream.frames)
    /\ Len(FrameEvents) = Len(stream.frames)
    /\ \A k \in 1..Len(FrameEvents) : FrameEvents[k].n = k

Undisturbed == exc # "CancelledError"

C10_CleanEndAfterKFrames ==
    []Undisturbed => ((pc = "recv" /\ ClosesAfterWireShapedFrames) ~> EndedCleanly)

C10_Witness ==
    /\ ClosesAfterWireShapedFrames
    /\ Len(stream.frames) = 2
    /\ EndedCleanly
    /\ FrameEvents[1].kind = "status"
    /\ FrameEvents[2].kind = "handler"

(***************************************************************************)
(* C11: a frame that is not JSON does not end the session: the session     *)
(* never stops on a JSONDecodeError with frames of the stream left         *)
(* undispatched behind the malformed one.                                  *)
(***************************************************************************)
C11_MalformedFrameSkipped ==
    \A k \in 1..consumed :
        (~stream.frames[k].wf /\ k < Len(stream.frames))
            => ~(pc \in {"exit", "done"} /\ consumed = k /\ exc = "JSONDecodeError")

(***************************************************************************)
(* C12: when the registered handler raises on an order_alert frame, the    *)
(* session ends with the handler's exception, and what the caller gets is  *)
(* that exception: not the result of a normal end, not a transport error.  *)
(***************************************************************************)
HandlerFaulted ==
    \E i \in 1..Len(dispatched) :
        /\ IsObject(dispatched[i].msg)
        /\ TypeField(dispatched[i].msg) = [t |-> "str", v |-> "order_alert"]
        /\ dispatched[i].on_update = [t |-> "function", v |-> "h_raise"]

C12_HandlerFaultSurfaced ==
    HandlerFaulted =>
        /\ pc \in {"exit", "done"}
        /\ exc = "HandlerError"
        /\ pc = "done" =>
              /\ callerSaw = "HandlerError"
              /\ callerSaw \notin {"None", "nothing", "ConnectionClosedError",
                                   "ConnectionClosed", "OSError"}

C12_Witness ==
    /\ pc = "done"
    /\ HandlerFaulted
    /\ Len(dispatched) = 2
    /\ callerSaw = "HandlerError"

(***************************************************************************)
(* C13: when the open or the sending of the login frame fails, the caller  *)
(* gets the error, no frame is yielded or dispatched and no handler is     *)
(* called in that attempt: a frame is dispatched only after the login      *)
(* frame was sent, a session that ends with nothing sent ends in an error, *)
(* and a session whose open failed has sent nothing.                       *)
(***************************************************************************)
C13_HandshakeFailure ==
    /\ sent = <<>> => (consumed = 0 /\ dispatched = <<>> /\ FrameEvents = <<>>)
    /\ (pc = "done" /\ sent = <<>>) =>
          /\ exc \in {"OSError", "ConnectionClosed", "CancelledError"}
          /\ callerSaw = exc
    /\ (pc = "done" /\ conn = "none") => (sent = <<>> /\ out = <<>>)
    /\ (pc = "done" /\ exc = "OSError") => conn = "none"

C13_Witness ==
    /\ pc = "done"
    /\ exc = "ConnectionClosed"
    /\ callerSaw = "ConnectionClosed"
    /\ conn = "closed"
    /\ Len(stream.frames) = 2
    /\ inst_on_update = [t |-> "function", v |-> "h_ok"]

(***************************************************************************)
(* C15: a session ended by a frame that is not JSON gives its caller a     *)
(* JSONDecodeError, and a caller that gets a JSONDecodeError knows the     *)
(* last frame read was not JSON: the outcome is neither that of a normal   *)
(* end (None) nor that of a transport failure.                             *)
(***************************************************************************)
MalformedSeen == consumed >= 1 /\ ~stream.frames[consumed].wf

TransportOutcomes == {"OSError", "ConnectionClosed", "ConnectionClosedError"}

C15_MalformedFrameDistinct ==
    pc = "done" =>
        /\ MalformedSeen => callerSaw = "JSONDecodeError"
        /\ callerSaw = "JSONDecodeError" => MalformedSeen
        /\ callerSaw \in TransportOutcomes \cup {"None"} => ~MalformedSeen

C15_Witness ==
    /\ pc = "done"
    /\ MalformedSeen
    /\ consumed = 2
    /\ callerSaw = "JSONDecodeError"
    /\ conn = "closed"

(***************************************************************************)
(* C16: an order_alert frame dispatched with no handler registered, whose  *)
(* Data is an object without orderNo or is absent (the payload is then the *)
(* empty object), produces exactly one event, the generic line with that   *)
(* payload; no status line; and the loop is not ended by that frame.       *)
(***************************************************************************)
C16_GenericLine ==
    \A i \in 1..Len(dispatched) :
        LET d == dispatched[i]
            absent == "Data" \notin DOMAIN d.msg.v
        IN  (/\ IsObject(d.msg)
             /\ TypeField(d.msg) = [t |-> "str", v |-> "order_alert"]
             /\ ~HasHandler(d)
             /\ \/ absent
                \/ /\ IsObject(d.msg.v.Data)
                   /\ "orderNo" \notin DOMAIN d.msg.v.Data.v)
                => /\ EventsOf(d.n) =
                        <<[n |-> d.n, kind |-> "generic",
                           args |-> <<IF absent THEN [t |-> "dict", v |-> <<>>]
                                      ELSE d.msg.v.Data>>]>>
                   /\ ~AbortedBy(d.n)

C16_Witness ==
    /\ Len(dispatched) = 2
    /\ \A i \in 1..2 :
          /\ IsObject(dispatched[i].msg)
          /\ TypeField(dispatched[i].msg) = [t |-> "str", v |-> "order_alert"]
          /\ ~HasHandler(dispatched[i])
    /\ "Data" \notin DOMAIN dispatched[1].msg.v
    /\ "Data" \in DOMAIN dispatched[2].msg.v
    /\ IsObject(dispatched[2].msg.v.Data)
    /\ DOMAIN dispatched[2].msg.v.Data.v = {"status"}
    /\ pc = "done"
    /\ exc = "None"

(***************************************************************************)
(* C19: every frame that decodes, whatever it decodes to, gives exactly    *)
(* one event of the four kinds (unknown line, handler call, status line,   *)
(* generic line) and never an error that ends the loop.                    *)
(***************************************************************************)
C19_ClassificationTotal ==
    \A i \in 1..Len(dispatched) :
        LET d == dispatched[i]
        IN  /\ Len(EventsOf(d.n)) = 1
            /\ EventsOf(d.n)[1].kind \in {"unknown", "handler", "status", "generic"}
            /\ ~(AbortedBy(d.n) /\ exc \in {"AttributeError", "TypeError"})

(***************************************************************************)
(* C17: each call of handle_order_update reads on_update anew. In every    *)
(* step that dispatches a frame, the value the dispatch used is the value  *)
(* self.on_update has at that step; for an order_alert frame the handler   *)
(* called is that value when it is a function, and no handler is called    *)
(* when it is not: an assignment made between two frames decides the next  *)
(* frame.                                                                  *)
(***************************************************************************)
C17_SlotReadPerFrame ==
    [][Len(dispatched') = Len(dispatched) + 1 =>
          LET d == dispatched'[Len(dispatched')]
              now == self_on_update
              events == SelectSeq(out', LAMBDA e : e.n = d.n)
          IN  /\ d.on_update = now
              /\ (IsObject(d.msg) /\ TypeField(d.msg) = [t |-> "str", v |-> "order_alert"])
                    => IF now.t = "function"
                       THEN events = <<[n |-> d.n, kind |-> "handler",
                                        args |-> <<now, d.msg>>]>>
                       ELSE \A j \in 1..Len(events) : events[j].kind # "handler"
      ]_vars

C17_Witness ==
    /\ Len(dispatched) = 2
    /\ \A i \in 1..2 :
          /\ IsObject(dispatched[i].msg)
          /\ TypeField(dispatched[i].msg) = [t |-> "str", v |-> "order_alert"]
    /\ dispatched[1].on_update = [t |-> "NoneType", v |-> "None"]
    /\ dispatched[2].on_update = [t |-> "function", v |-> "h_ok"]
    /\ Len(FrameEvents) = 2
    /\ FrameEvents[1].kind = "status"
    /\ FrameEvents[2].kind = "handler"

(***************************************************************************)
(* C18: no step of the session (the login, a dispatch of any kind, an      *)
(* error exit, the end) changes the client id, the access token, the       *)
(* endpoint URL or on_update, on the instance or on the class; and after   *)
(* every such step dhan_context has been asked for the credentials just    *)
(* once each, at construction.                                             *)
(***************************************************************************)
C18_ConfigurationUntouched ==
    [][session' # session =>
          /\ UNCHANGED <<client_id, access_token, order_feed_wss>>
          /\ UNCHANGED <<class_on_update, inst_on_update>>
          /\ ctx_calls' = <<"get_client_id", "get_access_token">>
          /\ order_feed_wss' = "wss://api-order-update.dhan.co"
      ]_vars

C18_Witness ==
    /\ pc = "done"
    /\ exc = "AttributeError"
    /\ Len(dispatched) = 2
    /\ dispatched[1].on_update = [t |-> "function", v |-> "h_ok"]
    /\ FrameEvents[1].kind = "handler"
    /\ client_id = [t |-> "int", v |-> "7"]
    /\ ctx_calls = <<"get_client_id", "get_access_token">>

(***************************************************************************)
(* C14: instances share no state: a handler registered for another         *)
(* instance, on that instance or on the class-level slot, is never the     *)
(* handler this instance's dispatcher invokes. An instance on which no     *)
(* handler was ever registered (on_update was never assigned on it)        *)
(* dispatches no frame to a handler.                                       *)
(***************************************************************************)
C14_NoSharedHandlerSlot ==
    \A i \in 1..Len(dispatched) :
        (\E j \in 1..Len(out) : out[j].n = dispatched[i].n /\ out[j].kind = "handler")
            => inst_on_update # [t |-> "unset", v |-> "unset"]

====
